---- MODULE Spec2Model ----
(***************************************************************************)
(* Market Aggregation & Peer-Similarity engine of the three dashboards     *)
(* (app3.py: IT, app4.py: Education, app5.py: Construction).               *)
(*                                                                         *)
(* One Streamlit run of main() is a request: sidebar_filters(), the        *)
(* emptiness check, the KPIs, the geographic view of tab 1 (national /     *)
(* state / city), then tab 4: the ranked leads, the CSV export and the PDF *)
(* report.  Tabs 2 and 3 only draw charts of df_filtered and keep no       *)
(* state.  The dataset snapshot df is fixed for a behaviour.               *)
(*                                                                         *)
(* Numbers.  Ages are small naturals and arithmetic is exact: a mean is a  *)
(* pair [num, den]; a distance is kept as the numerator of its SQUARE over *)
(* the denominator dist_den shared by all rows of one baseline (sqrt is    *)
(* monotone, so order, ties and zero are those of the distance).           *)
(***************************************************************************)
EXTENDS Integers, Sequences, FiniteSets, TLC

VARIABLES
    app,              \* which instance runs: "app3", "app4" or "app5"
    columns,          \* the optional columns the parquet snapshot carries
    tieOrder,         \* how this build's quicksort orders equal keys
    df,               \* load_data(): the snapshot, a sequence of records
    pc,               \* position of the current run of main()
    sel_uf,           \* sidebar: selected state ("Todos" = none)
    sel_cidade,       \* sidebar: selected city ("Todas" = none)
    sel_cat,          \* sidebar: selected values of the category filter
    sel_tier,         \* sidebar: selected tiers (app4 only)
    df_filtered,      \* the filtered population
    messages,         \* st.warning / st.error texts shown in this run
    crashed,          \* the uncaught exception that ended this run, or "none"
    view,             \* which branch of tab 1 ran: "none", "national", "state", "city"
    expansion_data,   \* national view: per-state aggregate (top 10)
    city_matrix,      \* state view: per-city aggregate (top 20)
    city_matrix_full, \* city view: the peer baseline aggregate (+ distance)
    peer,             \* city view: scalars of the peer computation
    peer_cluster,     \* city view: the tagged peer result, or <<>>
    kpis,             \* the KPI cards of this run
    df_leads,         \* tab 4: the ranked population
    preview,          \* tab 4: the rows of the on-screen table (top 50)
    csv_export,       \* tab 4: the rows of the CSV download
    report            \* tab 4: the lead rows of the PDF report (top 15)

vars == <<app, columns, tieOrder, df, pc, sel_uf, sel_cidade, sel_cat, sel_tier,
          df_filtered, messages, crashed, view, expansion_data, city_matrix,
          city_matrix_full, peer, peer_cluster, kpis, df_leads, preview,
          csv_export, report>>

config == <<app, columns, tieOrder, df>>
tab1out == <<view, expansion_data, city_matrix, city_matrix_full, peer, peer_cluster>>
tab4out == <<df_leads, preview, csv_export, report>>
outputs == <<messages, crashed, kpis, tab1out, tab4out>>

-----------------------------------------------------------------------------
(* Values *)

NaN == "NaN"                       \* a missing (null) cell
Todos == "Todos"
Todas == "Todas"

\* Lexicographic order of the strings used as group keys (groupby sorts keys).
KeyOrder == <<"a", "b", "c", "d", "e", "f", "g", "h", "i", "j", "rj", "sp">>

Rank(k) == CHOOSE i \in 1..Len(KeyOrder) : KeyOrder[i] = k

\* str(x) of a cell, as used to build the option lists.
Str(x) == IF x = NaN THEN "nan" ELSE x

Range(s) == {s[i] : i \in 1..Len(s)}

RECURSIVE SumSeq(_)
SumSeq(s) == IF s = <<>> THEN 0 ELSE Head(s) + SumSeq(Tail(s))

RECURSIVE Gcd(_, _)
Gcd(a, b) == IF b = 0 THEN a ELSE Gcd(b, a % b)

Lcm(a, b) == (a * b) \div Gcd(a, b)

RECURSIVE LcmSet(_)
LcmSet(S) == IF S = {} THEN 1
             ELSE LET x == CHOOSE y \in S : TRUE IN Lcm(x, LcmSet(S \ {x}))

Min(a, b) == IF a <= b THEN a ELSE b

\* DataFrame.head(n)
HeadN(s, n) == SubSeq(s, 1, Min(n, Len(s)))

-----------------------------------------------------------------------------
(* The dataset *)

Apps == {"app3", "app4", "app5"}

\* The category column of the sidebar's multiselect, per instance.
CatColumn(a) == CASE a = "app3" -> "porte_descricao_norm"
                  [] a = "app4" -> "segmento_educacional"
                  [] OTHER      -> "segmento_construcao"

\* The column of the instance's categorical KPI.
KpiColumn(a) == CASE a = "app3" -> "natureza_juridica"
                  [] a = "app4" -> "qualidade_contato"
                  [] OTHER      -> "risco_operacional"

\* A CompanyRecord.  categoria is the cell of CatColumn(app), kpi_attr the
\* cell of KpiColumn(app); tier_cliente is "premium" for the tier values the
\* instance lists as high ticket.  A cell of a column the snapshot does not
\* carry (see columns) is never read.  Capital 1, score 0 and name 0 unless
\* set by Lead.
Rec(uf, mun, cnpj, idade, ht, cat, tier) ==
    [uf_norm |-> uf, municipio_norm |-> mun, cnpj_completo |-> cnpj,
     idade_empresa_anos |-> idade, is_high_ticket |-> ht,
     categoria |-> cat, tier_cliente |-> tier,
     razao_social |-> 0, capital_social |-> 1, score_contato |-> 0,
     kpi_attr |-> NaN]

\* The record r with its name, capital, contact score and age set.
Lead(r, nome, capital, score, idade) ==
    [r EXCEPT !.razao_social = nome, !.capital_social = capital,
              !.score_contato = score, !.idade_empresa_anos = idade]

\* df[df[col] == v]
Where(rows, col, v) == SelectSeq(rows, LAMBDA r : r[col] = v)

\* df[df[col].isin(vals)]: a missing cell matches no selected string.
WhereIn(rows, col, vals) ==
    SelectSeq(rows, LAMBDA r : r[col] # NaN /\ r[col] \in vals)

\* df[col].dropna().unique(), as strings
Uniques(rows, col) == {Str(r[col]) : r \in {x \in Range(rows) : x[col] # NaN}}

\* df[col].unique(), as strings (app3 keeps the missing cell, as "nan")
UniquesWithNaN(rows, col) == {Str(r[col]) : r \in Range(rows)}

-----------------------------------------------------------------------------
(* sidebar_filters *)

OptsUF(d) == {Todos} \cup Uniques(d, "uf_norm")

\* Faulty variant of OptsCidade: the cities of every state offered, whichever state
\* is selected.
OptsCidadeAllStates(d, uf) ==
    IF uf = Todos THEN {Todas}
    ELSE {Todas} \cup Uniques(d, "municipio_norm")

OptsCidade(d, uf) ==
    IF uf = Todos THEN {Todas}
    ELSE {Todas} \cup Uniques(Where(d, "uf_norm", uf), "municipio_norm")

ListaCat(a, cols, d) ==
    IF CatColumn(a) \notin cols THEN {}
    ELSE IF a = "app3" THEN UniquesWithNaN(d, "categoria")
    ELSE Uniques(d, "categoria")

ListaTier(a, cols, d) ==
    IF a = "app4" /\ "tier_cliente" \in cols THEN Uniques(d, "tier_cliente") ELSE {}

GeoFiltered(d, uf, cid) ==
    IF uf = Todos THEN d
    ELSE IF cid = Todas THEN Where(d, "uf_norm", uf)
    ELSE Where(Where(d, "uf_norm", uf), "municipio_norm", cid)

\* Faulty variant of CatFiltered: the restriction applied to an empty selection too.
CatFilteredStrict(rows, col, sel) == WhereIn(rows, col, sel)

CatFiltered(rows, col, sel) == IF sel = {} THEN rows ELSE WhereIn(rows, col, sel)

Filtered(d, uf, cid, scat, stier) ==
    CatFiltered(CatFiltered(GeoFiltered(d, uf, cid), "categoria", scat),
                "tier_cliente", stier)

-----------------------------------------------------------------------------
(* Aggregator: df.groupby(col).agg(...).reset_index() *)

\* The group keys: the distinct non-missing values, in sorted order.
GroupKeys(rows, col) ==
    LET K == {r[col] : r \in {x \in Range(rows) : x[col] # NaN}}
    IN  [p \in 1..Cardinality(K) |->
            CHOOSE k \in K : Cardinality({j \in K : Rank(j) < Rank(k)}) = p - 1]

\* ('cnpj_completo', 'count'): the non-missing tax ids of the group
CountAgg(members) == Len(SelectSeq(members, LAMBDA r : r.cnpj_completo # NaN))

\* Faulty variant of MeanAgg: the sum where the mean is asked for.
MeanAggAsSum(members) ==
    [num |-> SumSeq([i \in 1..Len(members) |-> members[i].idade_empresa_anos]),
     den |-> 1]

\* ('idade_empresa_anos', 'mean'), exact
MeanAgg(members) ==
    [num |-> SumSeq([i \in 1..Len(members) |-> members[i].idade_empresa_anos]),
     den |-> Len(members)]

\* ('is_high_ticket', 'sum')
SumAgg(members) == SumSeq([i \in 1..Len(members) |-> members[i].is_high_ticket])

\* One row per group key, with the aggregate columns the call asks for
\* (total = total / total_empresas, idade = idade / idade_media_anos,
\* high_ticket = high_ticket / leads_high_ticket).
GroupBy(rows, col, aggs) ==
    LET keys == GroupKeys(rows, col)
    IN  [p \in 1..Len(keys) |->
            LET members == Where(rows, col, keys[p])
            IN  [c \in {"key"} \cup aggs |->
                    CASE c = "key"   -> keys[p]
                      [] c = "total" -> CountAgg(members)
                      [] c = "idade" -> MeanAgg(members)
                      [] OTHER       -> SumAgg(members)]]

-----------------------------------------------------------------------------
(* DataFrame.sort_values(by=<one column>), default kind='quicksort' *)

\* The sort's order of two rows with equal keys.  pandas documents the
\* default kind as not stable, so which of the two comes first depends on
\* the build (numpy's insertion-sort path keeps the input order, its
\* partitioning and vectorised paths do not).  A build is deterministic:
\* tieOrder is fixed for a behaviour.
TieBefore(t, i, j) == IF t = "input" THEN i < j ELSE i > j

\* rows sorted by their integer column col, ascending or descending.
SortValues(rows, col, ascending, t) ==
    LET n == Len(rows)
        Before(i, j) == \/ (IF ascending THEN rows[i][col] < rows[j][col]
                                         ELSE rows[i][col] > rows[j][col])
                        \/ (rows[i][col] = rows[j][col] /\ TieBefore(t, i, j))
    IN  [p \in 1..n |->
            rows[CHOOSE i \in 1..n :
                    Cardinality({j \in 1..n : j # i /\ Before(j, i)}) = p - 1]]

-----------------------------------------------------------------------------
(* Normalizer and Peer Finder (tab 1, city mode) *)

TopK == 6

\* The second metric of the instance: mean age (app3) or high-ticket count.
Metric2(a) == IF a = "app3" THEN "idade" ELSE "high_ticket"

\* The common denominator of the second metric over the baseline.
Unit(a, cmf) ==
    IF a = "app3" THEN LcmSet({cmf[i].idade.den : i \in 1..Len(cmf)}) ELSE 1

\* The second metric of a row, in units of 1/Unit.
Value2(a, row, unit) ==
    IF a = "app3" THEN (row.idade.num * unit) \div row.idade.den
    ELSE row.high_ticket

MaxOf(S) == CHOOSE m \in S : \A x \in S : x <= m

\* Faulty variant of Scale: the maximum without the replacement of 0 by 1.
ScaleNoGuard(S, one) == MaxOf(S)

\* Faulty variant of Scale: no scaling, the divisor is always 1.
ScaleAlwaysOne(S, one) == one

\* max_x = col.max() if col.max() > 0 else 1   (one = the value 1 in the
\* column's units)
Scale(S, one) == IF MaxOf(S) > 0 THEN MaxOf(S) ELSE one

\* Faulty variant of DistNum: the second metric left out of the distance.
DistNumTotalOnly(total, m2, val_total, val_2, max_total, max_2) ==
    (total - val_total) * (total - val_total) * max_2 * max_2

\* The numerator of ((total - val_total)/max_total)^2 + ((m2 - val_2)/max_2)^2
\* over the denominator (max_total * max_2)^2.
DistNum(total, m2, val_total, val_2, max_total, max_2) ==
    (total - val_total) * (total - val_total) * max_2 * max_2
    + (m2 - val_2) * (m2 - val_2) * max_total * max_total

\* The tag of the entries that are not the target, per application.
PeerTag(a) == CASE a = "app3" -> "Cidade Similar"
                [] a = "app4" -> "Oportunidade Similar"
                [] OTHER      -> "Clone Comercial"

\* Faulty variant of Classify: every entry tagged as the target.
ClassifyAllTarget(a, x, target) == "Alvo Atual"

\* lambda x: 'Alvo Atual' if x == sel_cidade else <the peer tag>
Classify(a, x, target) == IF x = target THEN "Alvo Atual" ELSE PeerTag(a)

NoPeer == [found |-> FALSE]

\* The scalars of lines 251-259: sel_stats, val_*, max_*.
PeerScalars(a, cmf, target) ==
    LET sel_stats == SelectSeq(cmf, LAMBDA r : r.key = target)
        unit == Unit(a, cmf)
    IN  IF sel_stats = <<>> THEN NoPeer
        ELSE [found     |-> TRUE,
              unit      |-> unit,
              val_total |-> sel_stats[1].total,
              val_2     |-> Value2(a, sel_stats[1], unit),
              max_total |-> Scale({cmf[i].total : i \in 1..Len(cmf)}, 1),
              max_2     |-> Scale({Value2(a, cmf[i], unit) : i \in 1..Len(cmf)}, unit)]

\* Faulty variant of WithDistance: the count scaled per candidate (the larger of the
\* candidate's and the target's count) instead of once over the baseline.
WithDistancePerCandidate(a, cmf, ps) ==
    [i \in 1..Len(cmf) |->
        [c \in DOMAIN cmf[i] \cup {"dist_euclidiana"} |->
            IF c = "dist_euclidiana"
            THEN DistNum(cmf[i].total, Value2(a, cmf[i], ps.unit),
                         ps.val_total, ps.val_2,
                         Scale({cmf[i].total, ps.val_total}, 1), ps.max_2)
            ELSE cmf[i][c]]]

\* city_matrix_full['dist_euclidiana'] = ...
WithDistance(a, cmf, ps) ==
    [i \in 1..Len(cmf) |->
        [c \in DOMAIN cmf[i] \cup {"dist_euclidiana"} |->
            IF c = "dist_euclidiana"
            THEN DistNum(cmf[i].total, Value2(a, cmf[i], ps.unit),
                         ps.val_total, ps.val_2, ps.max_total, ps.max_2)
            ELSE cmf[i][c]]]

\* Faulty variant of Nearest: the five nearest instead of the six.
NearestFive(cmf, t) == HeadN(SortValues(cmf, "dist_euclidiana", TRUE, t), TopK - 1)

\* sort_values('dist_euclidiana').head(6)
Nearest(cmf, t) == HeadN(SortValues(cmf, "dist_euclidiana", TRUE, t), TopK)

\* peer_cluster['Classificação'] = ...apply(...): the tag column
Tagged(a, rows, target) ==
    [i \in 1..Len(rows) |->
        [c \in DOMAIN rows[i] \cup {"tag"} |->
            IF c = "tag" THEN Classify(a, rows[i].key, target) ELSE rows[i][c]]]

-----------------------------------------------------------------------------
(* KPI Calculator (the four cards above the tabs) *)

\* The modelled legal-nature codes whose text starts with '2', and the
\* modelled risk labels that contain 'Alto Risco'.
StartsWith2 == {"2062"}
ContainsAltoRisco == {"Alto Risco (Canteiro)"}

\* The categorical predicate of the instance's KPI on one cell:
\* astype(str).str.startswith('2'), == 'Ouro (Tel+Email)',
\* str.contains('Alto Risco', na=False).
KpiMatch(a, v) ==
    CASE a = "app3" -> Str(v) \in StartsWith2
      [] a = "app4" -> v = "Ouro (Tel+Email)"
      [] OTHER      -> v # NaN /\ v \in ContainsAltoRisco

\* Faulty variant of Percent: the division without the guard on the total.
PercentNoGuard(count, total) == [num |-> count * 100, den |-> total]

\* (count / total * 100) if total > 0 else 0, as the fraction num/den
Percent(count, total) ==
    IF total > 0 THEN [num |-> count * 100, den |-> total] ELSE [num |-> 0, den |-> 1]

\* The value 0 a percentage takes when its source column is absent.
ZeroPercent == [num |-> 0, den |-> 1]

\* The percentage of rows matching the instance's categorical predicate.
CategoricalPercent(a, cols, rows) ==
    IF KpiColumn(a) \in cols
    THEN Percent(Len(SelectSeq(rows, LAMBDA r : KpiMatch(a, r.kpi_attr))), Len(rows))
    ELSE ZeroPercent

\* The percentage of high-ticket rows (app4, app5).
HighTicketPercent(cols, rows) ==
    IF "is_high_ticket" \in cols THEN Percent(SumAgg(rows), Len(rows)) ELSE ZeroPercent

\* The names of the percentage cards of the instance.
PercentNames(a) ==
    CASE a = "app3" -> {"perc_ltda"}
      [] a = "app4" -> {"high_ticket_perc", "ouro_perc"}
      [] OTHER      -> {"alto_risco_perc", "high_ticket_perc"}

KpiPercents(a, cols, rows) ==
    [k \in PercentNames(a) |->
        IF k = "high_ticket_perc" THEN HighTicketPercent(cols, rows)
        ELSE CategoricalPercent(a, cols, rows)]

\* The k-th smallest capital of rows.
KthCapital(rows, k) ==
    CHOOSE v \in {rows[i].capital_social : i \in 1..Len(rows)} :
        /\ Cardinality({i \in 1..Len(rows) : rows[i].capital_social < v}) < k
        /\ Cardinality({i \in 1..Len(rows) : rows[i].capital_social <= v}) >= k

\* df_filtered['capital_social'].median() as the fraction num/2 (app3, app5);
\* den = 0 stands for the NaN of an empty column.
MedianCapital(rows) ==
    LET n == Len(rows)
    IN  IF n = 0 THEN [num |-> 0, den |-> 0]
        ELSE [num |-> KthCapital(rows, (n + 1) \div 2) + KthCapital(rows, (n \div 2) + 1),
              den |-> 2]

NoKpis == [shown |-> FALSE]

\* total, idade_media (den = 0: NaN), the percentages, and the median capital
\* where the instance shows it.
KpiCards(a, cols, rows) ==
    [shown       |-> TRUE,
     total       |-> Len(rows),
     idade_media |-> MeanAgg(rows),
     mediana_cap |-> IF a = "app4" THEN NaN ELSE MedianCapital(rows),
     perc        |-> KpiPercents(a, cols, rows)]

-----------------------------------------------------------------------------
(* Lead Ranker: DataFrame.sort_values(by=[...], ascending=[False, ...]) *)

TopReport == 15
TopPreview == 50

TwoKeys == <<"capital_social", "idade_empresa_anos">>
ThreeKeys == <<"capital_social", "score_contato", "idade_empresa_anos">>

\* Faulty variant of PreviewKeys: the contact score used whether or not the
\* snapshot carries the column.
PreviewKeysAlwaysScore(a, cols) == IF a # "app3" THEN ThreeKeys ELSE TwoKeys

\* The sort keys of the on-screen list (tab 4 of main).
PreviewKeys(a, cols) ==
    IF a # "app3" /\ "score_contato" \in cols THEN ThreeKeys ELSE TwoKeys

\* Faulty variant of ReportKeys: the report sorted on capital and age only.
ReportKeysNoScore(a, cols) == TwoKeys

\* The sort keys of the report (generate_pdf).
ReportKeys(a, cols) ==
    IF a # "app3" /\ "score_contato" \in cols THEN ThreeKeys ELSE TwoKeys

\* Faulty variant of Descending: the last key (age) taken lowest first.
RECURSIVE DescendingButLast(_, _, _)
DescendingButLast(keys, r1, r2) ==
    IF keys = <<>> THEN FALSE
    ELSE IF r1[Head(keys)] # r2[Head(keys)]
         THEN IF Len(keys) = 1 THEN r1[Head(keys)] < r2[Head(keys)]
              ELSE r1[Head(keys)] > r2[Head(keys)]
         ELSE DescendingButLast(Tail(keys), r1, r2)

\* r1 sorts strictly before r2: on the first key where they differ, r1 has
\* the higher value (ascending=[False, ...]).
RECURSIVE Descending(_, _, _)
Descending(keys, r1, r2) ==
    IF keys = <<>> THEN FALSE
    ELSE IF r1[Head(keys)] # r2[Head(keys)] THEN r1[Head(keys)] > r2[Head(keys)]
         ELSE Descending(Tail(keys), r1, r2)

\* Faulty variant of LeadTieBefore: rows equal on every key in reverse order.
LeadTieBeforeReversed(i, j) == i > j

\* A multi-column sort_values is a lexsort, which is stable (kind applies to
\* single-column sorts only): of two rows equal on every key, the one that
\* comes first in the input comes first in the output.
LeadTieBefore(i, j) == i < j

\* Row i of rows sorts before row j.
LeadBefore(rows, keys, i, j) ==
    \/ Descending(keys, rows[i], rows[j])
    \/ /\ ~Descending(keys, rows[j], rows[i])
       /\ LeadTieBefore(i, j)

\* Faulty variant of SortLeads: the sort applied to the rows taken from the last
\* to the first.
SortLeadsFromEnd(rows, keys) ==
    LET n   == Len(rows)
        rev == [i \in 1..n |-> rows[n + 1 - i]]
        pos == [i \in 1..n |->
                   Cardinality({j \in 1..n : j # i /\ LeadBefore(rev, keys, j, i)})]
    IN  [p \in 1..n |-> rev[CHOOSE i \in 1..n : pos[i] = p - 1]]

\* Faulty variant of SortLeads: one row kept per tax id.
SortLeadsDedup(rows, keys) ==
    LET n    == Len(rows)
        kept == {i \in 1..n : \A j \in 1..(i - 1) :
                                rows[j].cnpj_completo # rows[i].cnpj_completo}
        pos  == [i \in kept |->
                    Cardinality({j \in kept : j # i /\ LeadBefore(rows, keys, j, i)})]
    IN  [p \in 1..Cardinality(kept) |-> rows[CHOOSE i \in kept : pos[i] = p - 1]]

\* rows.sort_values(by=keys, ascending=[False, ...]): row i goes to the
\* place that follows the rows sorting before it.
SortLeads(rows, keys) ==
    LET n   == Len(rows)
        pos == [i \in 1..n |->
                   Cardinality({j \in 1..n : j # i /\ LeadBefore(rows, keys, j, i)})]
    IN  [p \in 1..n |-> rows[CHOOSE i \in 1..n : pos[i] = p - 1]]

NoExport == [made |-> FALSE]
NoReport == [made |-> FALSE]

\* Faulty variant of ToCsv: the export cut to the length of the on-screen list.
ToCsvTop(rows) == [made |-> TRUE, rows |-> HeadN(rows, TopPreview)]

\* df_filtered.to_csv(index=False): every row, in the population's order
ToCsv(rows) == [made |-> TRUE, rows |-> rows]

\* Faulty variant of GeneratePdf: one row short of the first fifteen.
GeneratePdfShort(a, cols, df_city) ==
    [made |-> TRUE, qualified |-> Len(df_city),
     rows |-> HeadN(SortLeads(df_city, ReportKeys(a, cols)), TopReport - 1)]

\* generate_pdf: the header's count of qualified leads and the table rows,
\* df_leads = df_city.sort_values(...).head(15).
GeneratePdf(a, cols, df_city) ==
    [made |-> TRUE, qualified |-> Len(df_city),
     rows |-> HeadN(SortLeads(df_city, ReportKeys(a, cols)), TopReport)]

-----------------------------------------------------------------------------
(* main(): one run of the script *)

TopStates == 10
TopCities == 20

NoOutputs ==
    /\ messages = {}
    /\ crashed = "none"
    /\ view = "none"
    /\ expansion_data = <<>>
    /\ city_matrix = <<>>
    /\ city_matrix_full = <<>>
    /\ peer = NoPeer
    /\ peer_cluster = <<>>
    /\ kpis = NoKpis
    /\ df_leads = <<>>
    /\ preview = <<>>
    /\ csv_export = NoExport
    /\ report = NoReport

\* df_filtered, sel_uf, sel_cidade = sidebar_filters(df): the user's choice
\* among the options the widgets offer, and the filtered population.
SidebarFilters ==
    /\ pc = "filters"
    /\ \E uf \in OptsUF(df) :
       \E cid \in OptsCidade(df, uf) :
       \E scat \in SUBSET ListaCat(app, columns, df) :
       \E stier \in SUBSET ListaTier(app, columns, df) :
          /\ sel_uf' = uf
          /\ sel_cidade' = cid
          /\ sel_cat' = scat
          /\ sel_tier' = stier
          /\ df_filtered' = Filtered(df, uf, cid, scat, stier)
    /\ pc' = "main"
    /\ UNCHANGED <<config, outputs>>

\* Faulty variant of EmptyWarning: the warning without the return.
EmptyWarningFallsThrough ==
    /\ pc = "main"
    /\ df_filtered = <<>>
    /\ messages' = messages \cup {"Sem dados para os filtros aplicados"}
    /\ pc' = "kpis"
    /\ UNCHANGED <<config, sel_uf, sel_cidade, sel_cat, sel_tier, df_filtered, kpis, tab4out,
                   crashed, view, expansion_data, city_matrix, city_matrix_full,
                   peer, peer_cluster>>

\* if df_filtered.empty: st.warning(...); return
EmptyWarning ==
    /\ pc = "main"
    /\ df_filtered = <<>>
    /\ messages' = messages \cup {"Sem dados para os filtros aplicados"}
    /\ pc' = "done"
    /\ UNCHANGED <<config, sel_uf, sel_cidade, sel_cat, sel_tier, df_filtered, kpis, tab4out,
                   crashed, view, expansion_data, city_matrix, city_matrix_full,
                   peer, peer_cluster>>

\* The population is not empty: the run goes on to the KPIs and the tabs.
EnterTabs ==
    /\ pc = "main"
    /\ df_filtered # <<>>
    /\ pc' = "kpis"
    /\ UNCHANGED <<config, sel_uf, sel_cidade, sel_cat, sel_tier, df_filtered, outputs>>

\* The KPI cards: total, mean age, median capital, percentages.
Kpis ==
    /\ pc = "kpis"
    /\ kpis' = KpiCards(app, columns, df_filtered)
    /\ pc' = "tab1"
    /\ UNCHANGED <<config, sel_uf, sel_cidade, sel_cat, sel_tier, df_filtered,
                   messages, crashed, tab1out, tab4out>>

\* An uncaught exception ends the run (Streamlit shows the traceback).
Raise(exc, v) ==
    /\ crashed' = exc
    /\ view' = v
    /\ pc' = "done"
    /\ UNCHANGED <<config, sel_uf, sel_cidade, sel_cat, sel_tier, df_filtered, kpis, tab4out,
                   messages, expansion_data, city_matrix, city_matrix_full,
                   peer, peer_cluster>>

\* df_expansion['is_high_ticket'] = df_expansion.get('tier_cliente', '').isin([...]).astype(int)
DeriveHighTicket(rows) ==
    [i \in 1..Len(rows) |->
        [rows[i] EXCEPT !.is_high_ticket = IF rows[i].tier_cliente = "premium" THEN 1 ELSE 0]]

\* df[df['uf_norm'] != 'sp'] if 'sp' in df['uf_norm'].values else df
ExpansionRows(d) ==
    IF \E i \in 1..Len(d) : d[i].uf_norm = "sp"
    THEN SelectSeq(d, LAMBDA r : r.uf_norm # "sp")
    ELSE d

NationalAggs(a) == CASE a = "app3" -> {"total", "idade"}
                     [] a = "app4" -> {"total", "high_ticket", "idade"}
                     [] OTHER      -> {"total", "high_ticket"}

NationalSortKey(a) == IF a = "app4" THEN "high_ticket" ELSE "total"

\* Faulty variant of Tab1National: the flag derived into the snapshot itself, with
\* no copy taken.
Tab1NationalInPlace ==
    /\ pc = "tab1"
    /\ sel_uf = Todos /\ sel_cidade = Todas
    /\ \E df_expansion \in {IF app # "app3" /\ "is_high_ticket" \notin columns
                            THEN DeriveHighTicket(ExpansionRows(df))
                            ELSE ExpansionRows(df)} :
       \E agg \in {GroupBy(df_expansion, "uf_norm", NationalAggs(app))} :
           /\ expansion_data' =
                 HeadN(SortValues(agg, NationalSortKey(app), FALSE, tieOrder), TopStates)
           /\ df' = IF app # "app3" /\ "is_high_ticket" \notin columns
                    THEN DeriveHighTicket(df) ELSE df
           /\ columns' = IF app # "app3" THEN columns \cup {"is_high_ticket"} ELSE columns
           /\ view' = "national"
           /\ pc' = "tab4"
           /\ UNCHANGED <<app, tieOrder, sel_uf, sel_cidade, sel_cat, sel_tier, df_filtered,
                          kpis, tab4out, messages, crashed, city_matrix, city_matrix_full,
                          peer, peer_cluster>>

\* tab 1, no state selected: the national expansion view.
\* (\E x \in {e} binds x to the value of e, as a local variable does.)
Tab1National ==
    /\ pc = "tab1"
    /\ sel_uf = Todos /\ sel_cidade = Todas
    /\ IF app # "app3" /\ "is_high_ticket" \notin columns /\ "tier_cliente" \notin columns
       THEN Raise("AttributeError", "national")
       ELSE \E df_expansion \in {IF app # "app3" /\ "is_high_ticket" \notin columns
                                 THEN DeriveHighTicket(ExpansionRows(df))
                                 ELSE ExpansionRows(df)} :
            \E agg \in {GroupBy(df_expansion, "uf_norm", NationalAggs(app))} :
                /\ expansion_data' =
                      HeadN(SortValues(agg, NationalSortKey(app), FALSE, tieOrder), TopStates)
                /\ view' = "national"
                /\ pc' = "tab4"
                /\ UNCHANGED <<config, sel_uf, sel_cidade, sel_cat, sel_tier, df_filtered, kpis, tab4out,
                               messages, crashed, city_matrix, city_matrix_full,
                               peer, peer_cluster>>

StateAggs(a) == IF a = "app3" THEN {"total", "idade"} ELSE {"total", "high_ticket", "idade"}

\* tab 1, a state and no city selected: the city matrix of the state
Tab1State ==
    /\ pc = "tab1"
    /\ sel_uf # Todos /\ sel_cidade = Todas
    /\ IF app # "app3" /\ "is_high_ticket" \notin columns
       THEN Raise("KeyError", "state")
       ELSE \E agg \in {GroupBy(df_filtered, "municipio_norm", StateAggs(app))} :
                /\ city_matrix' = HeadN(SortValues(agg, "total", FALSE, tieOrder), TopCities)
                /\ view' = "state"
                /\ pc' = "tab4"
                /\ UNCHANGED <<config, sel_uf, sel_cidade, sel_cat, sel_tier, df_filtered, kpis, tab4out,
                               messages, crashed, expansion_data, city_matrix_full,
                               peer, peer_cluster>>

PeerAggs(a) == {"total", Metric2(a)}

\* Faulty variant of Tab1City: the baseline aggregated from the filtered population
\* instead of the snapshot's rows of the selected state.
Tab1CityOverFiltered ==
    /\ pc = "tab1"
    /\ ~(sel_uf = Todos /\ sel_cidade = Todas)
    /\ sel_cidade # Todas
    /\ IF app # "app3" /\ "is_high_ticket" \notin columns
       THEN Raise("KeyError", "city")
       ELSE \E cmf \in {GroupBy(df_filtered, "municipio_norm", PeerAggs(app))} :
            \E ps \in {PeerScalars(app, cmf, sel_cidade)} :
                /\ peer' = ps
                /\ IF ps.found
                   THEN \E full \in {WithDistance(app, cmf, ps)} :
                        \E nearest \in {Nearest(full, tieOrder)} :
                            /\ city_matrix_full' = full
                            /\ peer_cluster' = Tagged(app, nearest, sel_cidade)
                   ELSE /\ city_matrix_full' = cmf
                        /\ peer_cluster' = <<>>
                /\ view' = "city"
                /\ pc' = "tab4"
                /\ UNCHANGED <<config, sel_uf, sel_cidade, sel_cat, sel_tier, df_filtered, kpis, tab4out,
                               messages, crashed, expansion_data, city_matrix>>

\* tab 1, a city selected: the peer benchmark against the cities of the state
Tab1City ==
    /\ pc = "tab1"
    /\ ~(sel_uf = Todos /\ sel_cidade = Todas)
    /\ sel_cidade # Todas
    /\ IF app # "app3" /\ "is_high_ticket" \notin columns
       THEN Raise("KeyError", "city")
       ELSE \E df_state_baseline \in {Where(df, "uf_norm", sel_uf)} :
            \E cmf \in {GroupBy(df_state_baseline, "municipio_norm", PeerAggs(app))} :
            \E ps \in {PeerScalars(app, cmf, sel_cidade)} :
                /\ peer' = ps
                /\ IF ps.found
                   THEN \E full \in {WithDistance(app, cmf, ps)} :
                        \E nearest \in {Nearest(full, tieOrder)} :
                            /\ city_matrix_full' = full
                            /\ peer_cluster' = Tagged(app, nearest, sel_cidade)
                   ELSE /\ city_matrix_full' = cmf
                        /\ peer_cluster' = <<>>
                /\ view' = "city"
                /\ pc' = "tab4"
                /\ UNCHANGED <<config, sel_uf, sel_cidade, sel_cat, sel_tier, df_filtered, kpis, tab4out,
                               messages, crashed, expansion_data, city_matrix>>

\* tab 4: the ranked leads (top 50 on screen), the CSV download of the
\* filtered population and, when a city is selected, the PDF report.
Tab4 ==
    /\ pc = "tab4"
    /\ \E leads \in {SortLeads(df_filtered, PreviewKeys(app, columns))} :
          /\ df_leads' = leads
          /\ preview' = HeadN(leads, TopPreview)
    /\ csv_export' = ToCsv(df_filtered)
    /\ report' = IF sel_cidade # Todas THEN GeneratePdf(app, columns, df_filtered)
                 ELSE NoReport
    /\ pc' = "done"
    /\ UNCHANGED <<config, sel_uf, sel_cidade, sel_cat, sel_tier, df_filtered,
                   messages, crashed, kpis, tab1out>>

\* Faulty variant of Rerun: the results of the previous request are kept, so
\* what a request does not recompute is left over from the one before.
RerunKeepsOutputs ==
    /\ pc = "done"
    /\ pc' = "filters"
    /\ UNCHANGED <<config, sel_uf, sel_cidade, sel_cat, sel_tier, df_filtered, outputs>>

\* A widget changes: Streamlit runs the script again from the top.
Rerun ==
    /\ pc = "done"
    /\ pc' = "filters"
    /\ sel_uf' = Todos /\ sel_cidade' = Todas /\ sel_cat' = {} /\ sel_tier' = {}
    /\ df_filtered' = <<>>
    /\ messages' = {}
    /\ crashed' = "none"
    /\ view' = "none"
    /\ expansion_data' = <<>>
    /\ city_matrix' = <<>>
    /\ city_matrix_full' = <<>>
    /\ peer' = NoPeer
    /\ peer_cluster' = <<>>
    /\ kpis' = NoKpis
    /\ df_leads' = <<>>
    /\ preview' = <<>>
    /\ csv_export' = NoExport
    /\ report' = NoReport
    /\ UNCHANGED config

Next ==
    \/ SidebarFilters
    \/ EmptyWarning
    \/ EnterTabs
    \/ Kpis
    \/ Tab1National
    \/ Tab1State
    \/ Tab1City
    \/ Tab4
    \/ Rerun

-----------------------------------------------------------------------------
(* Initial states: the snapshot and the build, before the first run *)

MaxRecs == 2
MaxPeerRecs == 3
MaxCities == 7

SeqsUpTo(S, n) == UNION {[1..m -> S] : m \in 0..n}

TieOrders == {"input", "reversed"}

\* Before the first run nothing is selected and nothing is shown.
FirstRun ==
    /\ pc = "filters"
    /\ sel_uf = Todos /\ sel_cidade = Todas /\ sel_cat = {} /\ sel_tier = {}
    /\ df_filtered = <<>>
    /\ NoOutputs

AllColumns(a) ==
    {CatColumn(a), KpiColumn(a), "score_contato"}
        \cup (IF a = "app3" THEN {} ELSE {"tier_cliente", "is_high_ticket"})

\* Snapshots with missing cells: two states, two cities, a tax id or none,
\* and one record without a category.
GenRecs ==
    {Rec(uf, mun, cnpj, 1, ht, "p", "std") :
        uf \in {"rj", "sp"}, mun \in {"a", "b", NaN}, cnpj \in {"id", NaN}, ht \in {0}}
    \cup {Rec("rj", "a", "id", 1, 0, NaN, "std")}

Init ==
    /\ app \in Apps
    /\ columns \in {AllColumns(app), AllColumns(app) \ {"is_high_ticket"}}
    /\ tieOrder \in TieOrders
    /\ df \in SeqsUpTo(GenRecs, MaxRecs)
    /\ FirstRun

Spec == Init /\ [][Next]_vars

-----------------------------------------------------------------------------
(* Snapshots for the Peer Finder *)

KeyAt(i) == KeyOrder[i]

\* The values the instance's second metric is built from.
Metric2Values(a) == IF a = "app3" THEN {0, 3} ELSE {0, 1}

PeerRec(a, uf, mun, v) ==
    IF a = "app3" THEN Rec(uf, mun, "id", v, 0, "p", "std")
    ELSE Rec(uf, mun, "id", 1, v, "p", "std")

\* (1) Up to MaxPeerRecs records over three cities of sp, in any order,
\*     alone or after one record of another state.
PeerRecs(a) == {PeerRec(a, "sp", mun, v) : mun \in {"a", "b", "c"}, v \in Metric2Values(a)}

SmallBaselines(a) ==
    {pre \o d : pre \in {<<>>, <<PeerRec(a, "rj", "a", 1)>>},
                d \in SeqsUpTo(PeerRecs(a), MaxPeerRecs)}

\* (2) n <= MaxCities cities of sp, each with one record of metric 0 or two
\*     records of metric 1: baselines wider than the peer list.
CityBlocks(a, i) ==
    {<<PeerRec(a, "sp", KeyAt(i), 0)>>,
     <<PeerRec(a, "sp", KeyAt(i), 1), PeerRec(a, "sp", KeyAt(i), 1)>>}

RECURSIVE WideSnapshot(_, _)
WideSnapshot(a, n) ==
    IF n = 0 THEN {<<>>}
    ELSE {d \o b : d \in WideSnapshot(a, n - 1), b \in CityBlocks(a, n)}

WideBaselines(a) == UNION {WideSnapshot(a, n) : n \in 4..MaxCities}

\* (3) Three cities a, b, c of sp with 4 or 10 records each, all of age 2
\*     or all of age 8 (mean age is the instance app3's second metric).
Copies(r, n) == [i \in 1..n |-> r]

ScenarioBaselines(a) ==
    IF a # "app3" THEN {}
    ELSE {Copies(PeerRec(a, "sp", "a", va), na) \o Copies(PeerRec(a, "sp", "b", vb), nb)
            \o Copies(PeerRec(a, "sp", "c", vc), nc) :
          va \in {2, 8}, vb \in {2, 8}, vc \in {2, 8},
          na \in {4, 10}, nb \in {4, 10}, nc \in {4, 10}}

\* Snapshots without the category columns: the sidebar offers no multiselect.
PeerColumns(a) == AllColumns(a) \ {CatColumn(a), "tier_cliente"}

InitPeer ==
    /\ app \in Apps
    /\ columns \in {PeerColumns(app), PeerColumns(app) \ {"is_high_ticket"}}
    /\ tieOrder \in TieOrders
    /\ df \in SmallBaselines(app) \cup WideBaselines(app) \cup ScenarioBaselines(app)
    /\ FirstRun

SpecPeer == InitPeer /\ [][Next]_vars

\* The Peer Finder as a component (lines 245-280 of main), entered with any
\* state and any target key over a small snapshot.
InitPeerFinder ==
    /\ app \in Apps
    /\ columns = PeerColumns(app)
    /\ tieOrder \in TieOrders
    /\ df \in SeqsUpTo(PeerRecs(app), MaxRecs)
    /\ pc = "tab1"
    /\ sel_uf \in {"rj", "sp"}
    /\ sel_cidade \in {"a", "b", "c"}
    /\ sel_cat = {} /\ sel_tier = {}
    /\ df_filtered = GeoFiltered(df, sel_uf, sel_cidade)
    /\ NoOutputs

SpecPeerFinder == InitPeerFinder /\ [][Next]_vars

-----------------------------------------------------------------------------
(* Snapshots for the Lead Ranker *)

MaxLeadRecs == 3

\* Each row named by its position in the snapshot.
Named(d) == [i \in 1..Len(d) |-> [d[i] EXCEPT !.razao_social = i]]

\* (1) Up to MaxLeadRecs companies of one city: two capitals, two contact
\*     scores, two ages, in any order.
LeadRecs ==
    {Lead(Rec("sp", "a", "id", 0, 0, "p", "std"), 0, c, sc, i) :
        c \in {1, 2}, sc \in {60, 90}, i \in {1, 5}}

SmallLeads == {Named(d) : d \in SeqsUpTo(LeadRecs, MaxLeadRecs)}

\* (2) Populations longer than the report and than the on-screen list, with
\*     ties on every key.
LongLead(i) ==
    Lead(Rec("sp", "a", "id", 0, 0, "p", "std"), i, i % 3, 60 + 30 * (i % 2), i % 4)

LongLengths == {TopReport + 1, TopPreview + 1}

LongLeads == {[i \in 1..n |-> LongLead(i)] : n \in LongLengths}

InitLeads ==
    /\ app \in Apps
    /\ columns \in {PeerColumns(app), PeerColumns(app) \ {"score_contato"}}
    /\ tieOrder \in TieOrders
    /\ df \in SmallLeads \cup LongLeads
    /\ FirstRun

SpecLeads == InitLeads /\ [][Next]_vars

-----------------------------------------------------------------------------
(* The calculators as components: the KPI Calculator and what follows it   *)
(* in main, entered past the emptiness check with any population, the      *)
(* empty one included.                                                     *)

\* The values of the instance's KPI column: one that matches the KPI's
\* predicate, one that does not, a missing cell.
KpiValues(a) ==
    CASE a = "app3" -> {"2062", "4120", NaN}
      [] a = "app4" -> {"Ouro (Tel+Email)", "Prata (So Tel)", NaN}
      [] OTHER      -> {"Alto Risco (Canteiro)", "Baixo Risco (Escritorio)", NaN}

KpiRecs(a) ==
    {[Rec("sp", "a", "id", 1, ht, "p", "std") EXCEPT !.kpi_attr = v] :
        ht \in {0, 1}, v \in KpiValues(a)}

InitCalc ==
    /\ app \in Apps
    /\ columns \in {PeerColumns(app) \ absent : absent \in SUBSET {KpiColumn(app), "is_high_ticket"}}
    /\ tieOrder \in TieOrders
    /\ df \in SeqsUpTo(KpiRecs(app), MaxRecs) \cup LongLeads
    /\ pc = "kpis"
    /\ sel_uf \in {Todos, "sp"}
    /\ sel_cidade \in IF sel_uf = Todos THEN {Todas} ELSE {Todas, "a"}
    /\ sel_cat = {} /\ sel_tier = {}
    /\ df_filtered \in {<<>>, GeoFiltered(df, sel_uf, sel_cidade)}
    /\ NoOutputs

SpecCalc == InitCalc /\ [][Next]_vars

-----------------------------------------------------------------------------
(* Properties *)

\* The city branch of tab 1 ran to its end in this run.
CityViewDone == pc = "done" /\ view = "city" /\ crashed = "none"

\* ... and found the target in the baseline: a peer result exists.
PeerDone == CityViewDone /\ peer.found

Keys(rows) == {rows[i].key : i \in 1..Len(rows)}

Entry(rows, k) == rows[CHOOSE i \in 1..Len(rows) : rows[i].key = k]

\* Position of group k in the aggregated baseline (original group order).
GroupIndex(k) == CHOOSE i \in 1..Len(city_matrix_full) : city_matrix_full[i].key = k

\* C1: in city mode, for every baseline that contains the target city, the
\* peer result (at most 6 entries) contains the target city's entry, at
\* distance 0.
C1_TargetAlwaysInResult ==
    PeerDone =>
        \E i \in 1..Len(peer_cluster) :
            /\ peer_cluster[i].key = sel_cidade
            /\ peer_cluster[i].dist_euclidiana = 0

\* C2: for every baseline containing the target, the distance of the target
\* group is 0, the distance of every baseline group is >= 0, and the result
\* has min(6, number of baseline groups) entries.
C2_PeerShape ==
    PeerDone =>
        /\ Entry(city_matrix_full, sel_cidade).dist_euclidiana = 0
        /\ \A i \in 1..Len(city_matrix_full) : city_matrix_full[i].dist_euclidiana >= 0
        /\ Len(peer_cluster) = Min(6, Len(city_matrix_full))
        /\ Keys(peer_cluster) \subseteq Keys(city_matrix_full)

\* A baseline wider than the peer list, cut to 6 entries.
C2_Witness == PeerDone /\ Len(city_matrix_full) > 6 /\ Len(peer_cluster) = 6

\* C3: the result is ascending by distance, and two groups at the same
\* distance keep their relative order of the aggregated baseline.
C3_AscendingAndStable ==
    PeerDone =>
        \A i, j \in 1..Len(peer_cluster) :
            i < j =>
                /\ peer_cluster[i].dist_euclidiana <= peer_cluster[j].dist_euclidiana
                /\ peer_cluster[i].dist_euclidiana = peer_cluster[j].dist_euclidiana
                      => GroupIndex(peer_cluster[i].key) < GroupIndex(peer_cluster[j].key)

\* C4 (as claimed): an entry of the result has distance 0 exactly when it is
\* the target group.
C4_ZeroOnlyForTarget ==
    PeerDone =>
        \A i \in 1..Len(peer_cluster) :
            peer_cluster[i].dist_euclidiana = 0 <=> peer_cluster[i].key = sel_cidade

\* Equality of the two metric values of two aggregate rows (means compared
\* as fractions).
SameMetrics(a, r1, r2) ==
    /\ r1.total = r2.total
    /\ IF a = "app3" THEN r1.idade.num * r2.idade.den = r2.idade.num * r1.idade.den
       ELSE r1.high_ticket = r2.high_ticket

\* C4 (amended): an entry of the result has distance 0 exactly when its two
\* metric values equal the target's; the target's own entry, when it is in
\* the result, is one of them.
C4_ZeroIffSameMetrics ==
    PeerDone =>
        \A i \in 1..Len(peer_cluster) :
            /\ peer_cluster[i].dist_euclidiana = 0
                  <=> SameMetrics(app, peer_cluster[i], Entry(city_matrix_full, sel_cidade))
            /\ peer_cluster[i].key = sel_cidade => peer_cluster[i].dist_euclidiana = 0

\* A city other than the target sits in the result at distance 0, next to
\* one at a positive distance.
C4_Witness ==
    /\ PeerDone
    /\ \E i \in 1..Len(peer_cluster) :
          peer_cluster[i].key # sel_cidade /\ peer_cluster[i].dist_euclidiana = 0
    /\ \E i \in 1..Len(peer_cluster) : peer_cluster[i].dist_euclidiana > 0

\* The scenario: groups a (count 10, age 2), b (count 4, age 8) and the
\* target c (count 10, age 2), in that order, metrics (count, mean age).
ScenarioDone ==
    /\ app = "app3"
    /\ df = Copies(PeerRec("app3", "sp", "a", 2), 10) \o Copies(PeerRec("app3", "sp", "b", 8), 4)
              \o Copies(PeerRec("app3", "sp", "c", 2), 10)
    /\ sel_uf = "sp" /\ sel_cidade = "c"
    /\ PeerDone

\* The denominator shared by the squared distances of one baseline.
DistDen == (peer.max_total * peer.max_2) * (peer.max_total * peer.max_2)

\* Scales 10 and 8, distance(a) = distance(c) = 0 and
\* distance(b)^2 = 0.36 + 0.5625 = 369/400.
ScenarioNumbers ==
    /\ peer.max_total = 10
    /\ peer.max_2 = 8 * peer.unit
    /\ Entry(city_matrix_full, "a").dist_euclidiana = 0
    /\ Entry(city_matrix_full, "c").dist_euclidiana = 0
    /\ Entry(city_matrix_full, "b").dist_euclidiana * 400 = 369 * DistDen

PeerOrder == [i \in 1..Len(peer_cluster) |-> peer_cluster[i].key]

\* C5 (as claimed): in the scenario the scales are 10 and 8, a and c are at
\* distance 0, b at squared distance 0.9225, and the peer order is c, a, b.
C5_ScenarioTargetFirst ==
    ScenarioDone => ScenarioNumbers /\ PeerOrder = <<"c", "a", "b">>

\* C5 (amended): same numbers; b is returned last and the two groups at
\* distance 0, a and c, fill the first two places in the order the sort
\* gives to equal keys (a before c when it keeps the input order).
C5_ScenarioTiesFirst ==
    ScenarioDone =>
        /\ ScenarioNumbers
        /\ Len(peer_cluster) = 3
        /\ PeerOrder[3] = "b"
        /\ {PeerOrder[1], PeerOrder[2]} = {"a", "c"}
        /\ tieOrder = "input" => PeerOrder = <<"a", "c", "b">>

C5_Witness == ScenarioDone /\ PeerOrder = <<"a", "c", "b">>

\* The baseline aggregate of the city view, recomputed from the snapshot.
Baseline == GroupBy(Where(df, "uf_norm", sel_uf), "municipio_norm", PeerAggs(app))

\* m is the scale of the values S: their maximum, or one when that is 0.
IsScaleOf(m, S, one) ==
    \/ m \in S /\ m > 0 /\ \A x \in S : x <= m
    \/ m = one /\ \A x \in S : x = 0

\* C6: for every group g of the baseline, distance(g)^2 is the sum over the
\* two metrics of ((metric_i(g) - metric_i(target)) / scale_i)^2, with one
\* scale per metric, computed from the whole baseline and shared by all g.
C6_DistanceFormula ==
    PeerDone =>
        LET base == Baseline
            u    == peer.unit
            t    == Entry(base, sel_cidade)
            s1   == peer.max_total
            s2   == peer.max_2
        IN  /\ Len(city_matrix_full) = Len(base)
            /\ IsScaleOf(s1, {base[i].total : i \in 1..Len(base)}, 1)
            /\ IsScaleOf(s2, {Value2(app, base[i], u) : i \in 1..Len(base)}, u)
            /\ \A i \in 1..Len(base) :
                  /\ city_matrix_full[i].key = base[i].key
                  \* d^2 * (s1*s2)^2 = (dtotal * s2)^2 + (dmetric2 * s1)^2
                  /\ city_matrix_full[i].dist_euclidiana =
                        ((base[i].total - t.total) * s2) * ((base[i].total - t.total) * s2)
                        + ((Value2(app, base[i], u) - Value2(app, t, u)) * s1)
                          * ((Value2(app, base[i], u) - Value2(app, t, u)) * s1)

\* Distances computed over a baseline whose two scales differ and whose
\* groups differ from the target in both metrics.
C6_Witness ==
    /\ PeerDone
    /\ peer.max_total > 1
    /\ peer.max_2 # peer.max_total * peer.unit
    /\ \E i \in 1..Len(city_matrix_full) :
          /\ city_matrix_full[i].total # peer.val_total
          /\ Value2(app, city_matrix_full[i], peer.unit) # peer.val_2

\* C7: the scale of a metric is its maximum over the baseline, or 1 when
\* that maximum is 0; so with max 0 normalized = raw, with max M > 0 the
\* member achieving M normalizes to exactly 1, and every member's
\* normalized value lies in [0, 1].
C7_Normalizer ==
    PeerDone =>
        LET u  == peer.unit
            T  == {city_matrix_full[i].total : i \in 1..Len(city_matrix_full)}
            V  == {Value2(app, city_matrix_full[i], u) : i \in 1..Len(city_matrix_full)}
            \* v / scale is in [0, 1]
            Unit01(v, scale) == 0 <= v /\ v <= scale
        IN  /\ peer.max_total = (IF \E x \in T : x > 0 THEN MaxOf(T) ELSE 1)
            /\ peer.max_2 = (IF \E x \in V : x > 0 THEN MaxOf(V) ELSE u)
            /\ \A x \in T : Unit01(x, peer.max_total)
            /\ \A x \in V : Unit01(x, peer.max_2)
            \* max M > 0: a member normalizes to exactly 1 (v = scale)
            /\ (\E x \in T : x > 0) => peer.max_total \in T
            /\ (\E x \in V : x > 0) => peer.max_2 \in V
            \* max = 0: the scale is 1 (u in units of 1/u), normalized = raw
            /\ (\A x \in V : x = 0) => peer.max_2 = u

\* A baseline whose second metric is 0 everywhere (scale 1) and whose first
\* metric has a maximum above 1 reached by a group other than the target.
C7_Witness ==
    /\ PeerDone
    /\ \A i \in 1..Len(city_matrix_full) : Value2(app, city_matrix_full[i], peer.unit) = 0
    /\ peer.max_2 = peer.unit
    /\ peer.max_total > 1
    /\ peer.val_total < peer.max_total

C8_NoPartialResult ==
    (CityViewDone /\ sel_cidade \notin Keys(city_matrix_full)) =>
        /\ peer_cluster = <<>>
        /\ ~peer.found
        /\ \A i \in 1..Len(city_matrix_full) :
              "dist_euclidiana" \notin DOMAIN city_matrix_full[i]

SumTotals(rows) == SumSeq([i \in 1..Len(rows) |-> rows[i].total])

\* The population each view of tab 1 aggregates.
ViewPopulation ==
    CASE view = "national" -> ExpansionRows(df)
      [] view = "state"    -> df_filtered
      [] OTHER             -> Where(df, "uf_norm", sel_uf)

ViewGroupColumn == IF view = "national" THEN "uf_norm" ELSE "municipio_norm"

ViewAggregate ==
    CASE view = "national" -> expansion_data
      [] view = "state"    -> city_matrix
      [] OTHER             -> city_matrix_full

ViewDone == pc = "done" /\ view # "none" /\ crashed = "none"

\* C9: for every non-empty population and either grouping attribute, the
\* per-group counts sum to the number of records of the population.
C9_CountsSumToPopulation ==
    (ViewDone /\ ViewPopulation # <<>>) => SumTotals(ViewAggregate) = Len(ViewPopulation)

\* C10: one aggregate per distinct grouping value present in the
\* population, each with count >= 1; an empty population gives an empty
\* aggregate sequence, not an error.
C10_OneGroupPerValue ==
    /\ ViewDone =>
          /\ Len(ViewAggregate) = Cardinality(Keys(ViewAggregate))
          /\ Keys(ViewAggregate) = {r[ViewGroupColumn] : r \in Range(ViewPopulation)} \ {NaN}
          /\ \A i \in 1..Len(ViewAggregate) : ViewAggregate[i].total >= 1
    /\ (pc = "done" /\ view # "none" /\ ViewPopulation = <<>> /\ "is_high_ticket" \in columns)
          => crashed = "none" /\ ViewAggregate = <<>>

\* The part of C10 the code does satisfy (groups and emptiness).
C10_GroupsOnly ==
    /\ ViewDone =>
          /\ Len(ViewAggregate) = Cardinality(Keys(ViewAggregate))
          /\ Keys(ViewAggregate) = {r[ViewGroupColumn] : r \in Range(ViewPopulation)} \ {NaN}
    /\ (pc = "done" /\ view # "none" /\ ViewPopulation = <<>> /\ "is_high_ticket" \in columns)
          => crashed = "none" /\ ViewAggregate = <<>>

\* C11: in the Education and Construction instances, when the snapshot has
\* no high-ticket flag column, every view that sums the flag (national,
\* state city matrix, peer baseline) completes without a fatal error.
C11_MissingFlagNeverFatal ==
    (app # "app3" /\ "is_high_ticket" \notin columns /\ pc = "done" /\ view # "none")
        => crashed = "none"

\* The part of C11 the code does satisfy: the national view derives the flag
\* from the tier column and completes.
C11_NationalDerives ==
    (app # "app3" /\ "is_high_ticket" \notin columns /\ "tier_cliente" \in columns
        /\ pc = "done" /\ view = "national")
        => /\ crashed = "none"
           /\ expansion_data =
                 HeadN(SortValues(GroupBy(DeriveHighTicket(ExpansionRows(df)), "uf_norm",
                                          NationalAggs(app)),
                                  NationalSortKey(app), FALSE, tieOrder), TopStates)

-----------------------------------------------------------------------------
(* Properties of the Lead Ranker *)

\* tab 4 ran to its end in this run.
Tab4Done == pc = "done" /\ csv_export.made

\* Position of a row in the population the ranker was given.
InputIndex(r) == CHOOSE i \in 1..Len(df_filtered) : df_filtered[i] = r

\* rows is non-increasing by capital, and rows equal on capital (and on the
\* contact score when keys applies it) are non-increasing by age.
CapitalThenAge(rows, keys) ==
    \A i, j \in 1..Len(rows) :
        i < j =>
            /\ rows[i].capital_social >= rows[j].capital_social
            /\ (/\ rows[i].capital_social = rows[j].capital_social
                /\ keys = ThreeKeys => rows[i].score_contato = rows[j].score_contato)
                  => rows[i].idade_empresa_anos >= rows[j].idade_empresa_anos

\* C12: for every input population the ranked output is non-increasing by
\* capital_social, and two records equal on capital_social (and on the
\* contact score when that key is applied) are ordered non-increasing by age.
C12_CapitalThenAge ==
    Tab4Done =>
        /\ CapitalThenAge(df_leads, PreviewKeys(app, columns))
        /\ report.made => CapitalThenAge(report.rows, ReportKeys(app, columns))

\* The ranker moved a row: an older company that came later in the input is
\* ranked before a younger one of the same capital, below a higher capital.
C12_Witness ==
    /\ Tab4Done
    /\ \E i, j \in 1..Len(df_leads) :
          /\ i < j
          /\ df_leads[i].capital_social = df_leads[j].capital_social
          /\ df_leads[i].idade_empresa_anos > df_leads[j].idade_empresa_anos
          /\ InputIndex(df_leads[i]) > InputIndex(df_leads[j])
    /\ \E i, j \in 1..Len(df_leads) :
          df_leads[i].capital_social > df_leads[j].capital_social

\* Rows equal on capital are non-increasing by contact score.
ScoreWithinCapital(rows) ==
    \A i, j \in 1..Len(rows) :
        (i < j /\ rows[i].capital_social = rows[j].capital_social)
            => rows[i].score_contato >= rows[j].score_contato

\* C13: in each of the three instances and at both call sites (report and
\* on-screen list), whenever the snapshot provides the contact score, two
\* records with equal capital are ordered by contact score descending before
\* age is considered.
C13_ScoreBeforeAge ==
    (Tab4Done /\ "score_contato" \in columns) =>
        /\ ScoreWithinCapital(df_leads)
        /\ report.made => ScoreWithinCapital(report.rows)

\* The part of C13 the code does satisfy: the Education and Construction
\* instances.
C13_ScoreBeforeAgeOutsideIT ==
    (Tab4Done /\ "score_contato" \in columns /\ app # "app3") =>
        /\ ScoreWithinCapital(df_leads)
        /\ report.made => ScoreWithinCapital(report.rows)

\* out is the two-key ranking of inp: the same rows, non-increasing by
\* (capital, age), rows equal on both keys in input order.
IsTwoKeyRanking(out, inp) ==
    /\ Len(out) = Len(inp)
    /\ Range(out) = Range(inp)
    /\ \A i, j \in 1..Len(out) :
          i < j =>
              \/ out[i].capital_social > out[j].capital_social
              \/ /\ out[i].capital_social = out[j].capital_social
                 /\ out[i].idade_empresa_anos > out[j].idade_empresa_anos
              \/ /\ out[i].capital_social = out[j].capital_social
                 /\ out[i].idade_empresa_anos = out[j].idade_empresa_anos
                 /\ InputIndex(out[i]) < InputIndex(out[j])

\* C14: for a snapshot without the contact-score column the ranking does not
\* fail and the ranked output is, record for record, the output of the
\* two-key comparator (capital descending, age descending) on the same input.
C14_AbsentScoreIsTwoKey ==
    (pc = "done" /\ view # "none" /\ "score_contato" \notin columns) =>
        /\ crashed = "none"
        /\ csv_export.made
        /\ IsTwoKeyRanking(df_leads, df_filtered)
        /\ preview = HeadN(df_leads, 50)
        /\ report.made => report.rows = HeadN(df_leads, 15)

\* Without the column, a population where the contact score cells would
\* have ranked two rows of equal capital the other way round.
C14_Witness ==
    /\ Tab4Done /\ report.made
    /\ "score_contato" \notin columns
    /\ \E i, j \in 1..Len(df_leads) :
          /\ i < j
          /\ df_leads[i].capital_social = df_leads[j].capital_social
          /\ df_leads[i].idade_empresa_anos > df_leads[j].idade_empresa_anos
          /\ df_leads[i].score_contato < df_leads[j].score_contato

EqualOnKeys(keys, r1, r2) == \A n \in 1..Len(keys) : r1[keys[n]] = r2[keys[n]]

KeepsInputOrder(rows, keys) ==
    \A i, j \in 1..Len(rows) :
        (i < j /\ EqualOnKeys(keys, rows[i], rows[j]))
            => InputIndex(rows[i]) < InputIndex(rows[j])

\* C15: two records equal on every applied sort key appear in the output in
\* the same relative order as in the input population.
C15_Stable ==
    Tab4Done =>
        /\ KeepsInputOrder(df_leads, PreviewKeys(app, columns))
        /\ report.made => KeepsInputOrder(report.rows, ReportKeys(app, columns))

\* Two rows equal on every applied key were ranked, next to a third row that
\* the ranker moved in front of one of them.
C15_Witness ==
    /\ Tab4Done
    /\ \E i, j \in 1..Len(df_leads) :
          i < j /\ EqualOnKeys(PreviewKeys(app, columns), df_leads[i], df_leads[j])
    /\ df_leads # df_filtered

\* C16: ranking a sequence that is already the ranker's output, untruncated
\* or truncated, returns that sequence unchanged.
C16_Idempotent ==
    Tab4Done =>
        /\ SortLeads(df_leads, PreviewKeys(app, columns)) = df_leads
        /\ SortLeads(preview, PreviewKeys(app, columns)) = preview
        /\ report.made => SortLeads(report.rows, ReportKeys(app, columns)) = report.rows

\* A ranking that differs from its input, with ties on every key, truncated
\* for the report.
C16_Witness ==
    /\ Tab4Done /\ report.made
    /\ df_leads # df_filtered
    /\ Len(report.rows) < Len(df_leads)
    /\ \E i, j \in 1..Len(report.rows) :
          i < j /\ EqualOnKeys(ReportKeys(app, columns), report.rows[i], report.rows[j])

\* C17: the report has exactly min(15, |population|) rows and the on-screen
\* list exactly min(50, |population|) rows, each the first rows of the full
\* ranking; an empty population yields an empty result without error.
C17_Truncation ==
    Tab4Done =>
        /\ crashed = "none"
        /\ Len(preview) = Min(50, Len(df_filtered))
        /\ preview = SubSeq(df_leads, 1, Len(preview))
        /\ Len(df_leads) = Len(df_filtered)
        /\ report.made =>
              /\ Len(report.rows) = Min(15, Len(df_filtered))
              /\ report.rows = SubSeq(SortLeads(df_filtered, ReportKeys(app, columns)),
                                      1, Len(report.rows))
        /\ df_filtered = <<>> =>
              /\ preview = <<>>
              /\ report.made => report.rows = <<>>

\* A population longer than both lists, cut to 50 and to 15.
C17_Witness ==
    /\ Tab4Done /\ report.made
    /\ Len(df_filtered) > 50
    /\ Len(preview) = 50
    /\ Len(report.rows) = 15

\* The ranker reached with an empty population.
C17_EmptyReached == Tab4Done /\ report.made /\ df_filtered = <<>>

\* C18: for the same filtered population, the rows of the report (top 15)
\* are the first min(15, |population|) rows of the on-screen list (top 50).
C18_ReportIsPrefixOfPreview ==
    (Tab4Done /\ report.made) =>
        report.rows = SubSeq(preview, 1, Min(15, Len(df_filtered)))

\* The contact score is applied and decides between two rows of equal
\* capital against their ages.
C18_Witness ==
    /\ Tab4Done /\ report.made
    /\ PreviewKeys(app, columns) = ThreeKeys
    /\ \E i, j \in 1..Len(report.rows) :
          /\ i < j
          /\ report.rows[i].capital_social = report.rows[j].capital_social
          /\ report.rows[i].score_contato > report.rows[j].score_contato
          /\ report.rows[i].idade_empresa_anos < report.rows[j].idade_empresa_anos

-----------------------------------------------------------------------------
(* Properties of the KPI Calculator and of the emptiness check *)

\* The source column of a percentage card.
PercentColumn(a, k) == IF k = "high_ticket_perc" THEN "is_high_ticket" ELSE KpiColumn(a)

\* C19: every percentage KPI lies in [0, 100] for every population; for a
\* population of size 0 each percentage is 0 and nothing is divided by zero;
\* a percentage whose source column is absent is 0.
C19_PercentagesBounded ==
    kpis.shown =>
        /\ DOMAIN kpis.perc = PercentNames(app)
        /\ \A k \in DOMAIN kpis.perc :
              /\ kpis.perc[k].den > 0
              /\ 0 <= kpis.perc[k].num
              /\ kpis.perc[k].num <= 100 * kpis.perc[k].den
              /\ kpis.total = 0 => kpis.perc[k].num = 0
              /\ PercentColumn(app, k) \notin columns => kpis.perc[k].num = 0

\* The calculator ran on an empty population whose source columns exist.
C19_Witness ==
    /\ kpis.shown
    /\ kpis.total = 0
    /\ \A k \in DOMAIN kpis.perc : PercentColumn(app, k) \in columns

\* A percentage strictly between 0 and 100.
C19_ProperShareReached ==
    /\ kpis.shown
    /\ \E k \in DOMAIN kpis.perc :
          0 < kpis.perc[k].num /\ kpis.perc[k].num < 100 * kpis.perc[k].den

\* None of the computations that follow the emptiness check has run.
NothingComputed ==
    /\ ~kpis.shown
    /\ view = "none" /\ expansion_data = <<>> /\ city_matrix = <<>>
    /\ city_matrix_full = <<>> /\ ~peer.found /\ peer_cluster = <<>>
    /\ df_leads = <<>> /\ preview = <<>> /\ ~csv_export.made /\ ~report.made

\* C20: in every request whose filtered population is empty, the emptiness
\* check comes before any KPI, aggregate, peer or ranking computation, the
\* "no data" warning is the only outcome, and none of those computations
\* (nor the report or the export) is reached in that request.
C20_EmptyShortCircuit ==
    /\ [](df_filtered = <<>> /\ pc \in {"main", "done"} => NothingComputed)
    /\ [](pc \in {"kpis", "tab1", "tab4"} => df_filtered # <<>>)
    /\ []((pc = "done" /\ df_filtered = <<>>)
             => messages = {"Sem dados para os filtros aplicados"} /\ crashed = "none")
    /\ [][(pc = "main" /\ df_filtered = <<>>) => pc' = "done"]_vars

\* A request whose filters leave no record of a non-empty snapshot ended
\* with the warning.
C20_Witness ==
    /\ pc = "done"
    /\ df # <<>>
    /\ df_filtered = <<>>
    /\ messages = {"Sem dados para os filtros aplicados"}

-----------------------------------------------------------------------------
(* Properties of a request as a whole *)

\* The rows of an aggregate or ranked view carry a column the snapshot's
\* records do not carry.
DerivedColumns == {"dist_euclidiana", "tag", "total", "idade", "high_ticket", "key"}

\* C21: after any sequence of requests the snapshot (records, order,
\* columns) is unchanged, and so is the filtered population from the moment
\* the sidebar has built it to the end of its request; derived columns
\* (distance, derived high-ticket flag) are added to fresh views only.
C21_InputsUnchanged ==
    /\ [][df' = df /\ columns' = columns]_vars
    /\ [][pc \notin {"filters", "done"} => df_filtered' = df_filtered]_vars
    /\ [](\A i \in 1..Len(df) : DOMAIN df[i] \cap DerivedColumns = {})
    /\ [](\A i \in 1..Len(df_filtered) : DOMAIN df_filtered[i] \cap DerivedColumns = {})

\* A request that derived the high-ticket flag for the national view and
\* ranked the population has ended.
C21_Witness ==
    /\ Tab4Done
    /\ view = "national"
    /\ app # "app3" /\ "is_high_ticket" \notin columns
    /\ expansion_data # <<>>

\* A request that added the distance column to the peer baseline has ended.
C21_DistanceAdded ==
    /\ Tab4Done /\ PeerDone
    /\ \A i \in 1..Len(city_matrix_full) : "dist_euclidiana" \in DOMAIN city_matrix_full[i]

\* What tab 1 shows for the selection, computed from the snapshot, the build
\* and the selection alone.
NationalOf(a, cols, t, d) ==
    HeadN(SortValues(GroupBy(IF a # "app3" /\ "is_high_ticket" \notin cols
                             THEN DeriveHighTicket(ExpansionRows(d))
                             ELSE ExpansionRows(d),
                             "uf_norm", NationalAggs(a)),
                     NationalSortKey(a), FALSE, t), TopStates)

StateOf(a, t, population) ==
    HeadN(SortValues(GroupBy(population, "municipio_norm", StateAggs(a)),
                     "total", FALSE, t), TopCities)

PeersOf(a, t, d, uf, cid) ==
    LET cmf == GroupBy(Where(d, "uf_norm", uf), "municipio_norm", PeerAggs(a))
        ps  == PeerScalars(a, cmf, cid)
    IN  IF ps.found
        THEN Tagged(a, Nearest(WithDistance(a, cmf, ps), t), cid)
        ELSE <<>>

\* C22: every output of a request that has ended (aggregates, peer result
\* with its groups, order and tags, ranked lead lists, export and report
\* rows) is a function of the snapshot and the filter selection: it equals
\* what is computed from them alone, with nothing left over from an earlier
\* request.
C22_Deterministic ==
    pc = "done" =>
        \E population \in {Filtered(df, sel_uf, sel_cidade, sel_cat, sel_tier)} :
            /\ df_filtered = population
            /\ population = <<>> =>
                  /\ kpis = NoKpis /\ view = "none" /\ crashed = "none"
                  /\ expansion_data = <<>> /\ city_matrix = <<>> /\ peer_cluster = <<>>
                  /\ df_leads = <<>> /\ preview = <<>>
                  /\ csv_export = NoExport /\ report = NoReport
            /\ population # <<>> =>
                  /\ kpis = KpiCards(app, columns, population)
                  /\ view = IF sel_uf = Todos THEN "national"
                            ELSE IF sel_cidade = Todas THEN "state" ELSE "city"
                  /\ crashed = "none" =>
                        /\ expansion_data = IF view = "national"
                                            THEN NationalOf(app, columns, tieOrder, df)
                                            ELSE <<>>
                        /\ city_matrix = IF view = "state"
                                         THEN StateOf(app, tieOrder, population)
                                         ELSE <<>>
                        /\ peer_cluster = IF view = "city"
                                          THEN PeersOf(app, tieOrder, df, sel_uf, sel_cidade)
                                          ELSE <<>>
                        /\ df_leads = SortLeads(population, PreviewKeys(app, columns))
                        /\ preview = HeadN(df_leads, TopPreview)
                        /\ csv_export = ToCsv(population)
                        /\ report = IF sel_cidade # Todas
                                    THEN GeneratePdf(app, columns, population)
                                    ELSE NoReport
                  /\ crashed # "none" =>
                        /\ expansion_data = <<>> /\ city_matrix = <<>> /\ peer_cluster = <<>>
                        /\ df_leads = <<>> /\ preview = <<>>
                        /\ csv_export = NoExport /\ report = NoReport

\* A request with a peer result of several entries and a ranking has ended.
C22_Witness ==
    /\ Tab4Done /\ PeerDone
    /\ Len(peer_cluster) >= 2
    /\ df_leads # <<>>

-----------------------------------------------------------------------------
(* Properties of tab 4: export and ranking as a whole *)

\* C23: the flat-file export holds exactly the filtered population: every
\* record, in the population's order, neither ranked nor truncated.
C23_ExportIsPopulation ==
    Tab4Done =>
        /\ Len(csv_export.rows) = Len(df_filtered)
        /\ \A i \in 1..Len(df_filtered) : csv_export.rows[i] = df_filtered[i]

\* An export of a population longer than the on-screen list, whose ranking
\* differs from the population's order.
C23_Witness ==
    /\ Tab4Done
    /\ Len(df_filtered) > TopPreview
    /\ df_leads # df_filtered
    /\ Len(preview) < Len(csv_export.rows)

\* Number of occurrences of the record r in rows.
Occurrences(rows, r) == Cardinality({i \in 1..Len(rows) : rows[i] = r})

\* C24: the ranking before truncation is a permutation of the population:
\* same length, every record as many times as in the population; records
\* with the same tax id are neither merged, dropped nor duplicated.
C24_RankingIsPermutation ==
    Tab4Done =>
        /\ Len(df_leads) = Len(df_filtered)
        /\ \A r \in Range(df_filtered) \cup Range(df_leads) :
              Occurrences(df_leads, r) = Occurrences(df_filtered, r)

\* A ranking, in another order than the population's, of several records
\* that share their tax id.
C24_Witness ==
    /\ Tab4Done
    /\ Len(df_filtered) >= 3
    /\ \A i, j \in 1..Len(df_filtered) :
          df_filtered[i].cnpj_completo = df_filtered[j].cnpj_completo
    /\ df_leads # df_filtered

-----------------------------------------------------------------------------
(* Properties of the sidebar and of what depends on it *)

\* C25: every city the sidebar lets the user select is a group of the peer
\* baseline (the cities of the selected state in the unfiltered snapshot),
\* whatever category filters are active, so that a city view never ends in
\* the branch that finds no target.
C25_TargetAlwaysFound ==
    /\ (pc # "filters" /\ sel_cidade # Todas) => sel_cidade \in Keys(Baseline)
    /\ CityViewDone => (peer.found /\ peer_cluster # <<>>)

\* A city view has ended with a peer result while a category filter was
\* active that removed records of the selected city from the population.
C25_Witness ==
    /\ PeerDone
    /\ sel_cat \cup sel_tier # {}
    /\ Len(df_filtered) < Len(GeoFiltered(df, sel_uf, sel_cidade))

\* The mode of the selection: none, state or city.
Mode == IF sel_uf = Todos /\ sel_cidade = Todas THEN "national"
        ELSE IF sel_cidade = Todas THEN "state"
        ELSE "city"

\* The geographic views a request has computed to the end.
ViewsComputed == {v \in {"national", "state", "city"} : view = v /\ crashed = "none"}

\* C26: a city is selected only if a state is selected, and every request
\* with a non-empty filtered population computes exactly one of the three
\* geographic views: the one of the selection's mode.
C26_ExactlyOneView ==
    /\ sel_cidade # Todas => sel_uf # Todos
    /\ (pc = "done" /\ df_filtered # <<>>) => ViewsComputed = {Mode}

\* C26, the part that holds: a city is selected only if a state is, a
\* request enters the branch of its mode and no other, and it computes at
\* most one view.
C26_ModeSelectsBranch ==
    /\ sel_cidade # Todas => sel_uf # Todos
    /\ (pc = "done" /\ df_filtered # <<>>) => (view = Mode /\ ViewsComputed \subseteq {Mode})
    /\ (pc = "done" /\ crashed = "none" /\ df_filtered # <<>>) => ViewsComputed = {Mode}

\* A request in state mode ended in the exception, no view computed.
C26_StateViewLost ==
    /\ pc = "done" /\ df_filtered # <<>>
    /\ Mode = "state" /\ crashed = "KeyError"
    /\ ViewsComputed = {}

\* The category selections the sidebar offers that leave a non-empty
\* population for the selected state and city.
NonEmptySelections ==
    {s \in (SUBSET ListaCat(app, columns, df)) \X (SUBSET ListaTier(app, columns, df)) :
        Filtered(df, sel_uf, sel_cidade, s[1], s[2]) # <<>>}

\* C27: for a fixed snapshot, state and city, the peer result is the same
\* under every category selection that leaves a non-empty population: it is
\* the result computed from the snapshot's rows of the selected state, the
\* one the empty category selection gives.
C27_PeersIgnoreCategoryFilters ==
    PeerDone =>
        /\ <<sel_cat, sel_tier>> \in NonEmptySelections
        /\ <<{}, {}>> \in NonEmptySelections
        /\ peer_cluster = PeersOf(app, tieOrder, df, sel_uf, sel_cidade)
        /\ \A i \in 1..Len(city_matrix_full) :
              city_matrix_full[i].total =
                  CountAgg(GeoFiltered(df, sel_uf, city_matrix_full[i].key))

\* A peer result computed while a category selection had removed from the
\* population records the baseline counts for the selected city.
C27_Witness ==
    /\ PeerDone
    /\ sel_cat \cup sel_tier # {}
    /\ \E i \in 1..Len(peer_cluster) :
          /\ peer_cluster[i].key = sel_cidade
          /\ peer_cluster[i].total > CountAgg(df_filtered)

\* s is a sub-sequence of d: the rows of s are rows of d, in d's order.
RECURSIVE IsSubSeq(_, _)
IsSubSeq(s, d) ==
    IF s = <<>> THEN TRUE
    ELSE IF d = <<>> THEN FALSE
    ELSE IF Head(s) = Head(d) THEN IsSubSeq(Tail(s), Tail(d))
    ELSE IsSubSeq(s, Tail(d))

\* The record r satisfies the selection.
Selected(r) ==
    /\ sel_uf # Todos => r.uf_norm = sel_uf
    /\ sel_cidade # Todas => r.municipio_norm = sel_cidade
    /\ sel_cat # {} => (r.categoria # NaN /\ r.categoria \in sel_cat)
    /\ sel_tier # {} => (r.tier_cliente # NaN /\ r.tier_cliente \in sel_tier)

\* C28: once the sidebar has run, the filtered population is a sub-sequence
\* of the snapshot in snapshot order, made of exactly the records that have
\* the selected state, the selected city and, for a non-empty category
\* selection, a category among the selected ones; an empty category
\* selection restricts nothing.
C28_PopulationIsRestriction ==
    pc # "filters" =>
        /\ IsSubSeq(df_filtered, df)
        /\ \A i \in 1..Len(df_filtered) : Selected(df_filtered[i])
        /\ df_filtered = SelectSeq(df, Selected)
        /\ (sel_cat = {} /\ sel_tier = {}) => df_filtered = GeoFiltered(df, sel_uf, sel_cidade)

\* A non-empty category selection removed a record of the selected state
\* and kept another.
C28_Witness ==
    /\ pc = "done"
    /\ sel_uf # Todos
    /\ sel_cat \cup sel_tier # {}
    /\ df_filtered # <<>>
    /\ Len(df_filtered) < Len(GeoFiltered(df, sel_uf, sel_cidade))

\* An empty category selection with a non-empty population.
C28_EmptySelectionReached ==
    /\ pc = "done"
    /\ sel_cat = {} /\ sel_tier = {}
    /\ ListaCat(app, columns, df) # {}
    /\ df_filtered # <<>>
    /\ Len(df_filtered) < Len(df)

-----------------------------------------------------------------------------
(* Properties of the peer result: tags and distances *)

\* C29: in every peer result the group keys are pairwise distinct, an entry
\* carries the target tag exactly when its key is the selected city, at
\* most one entry carries the target tag and every other entry carries the
\* application's peer tag.
C29_PeerTagging ==
    PeerDone =>
        /\ \A i, j \in 1..Len(peer_cluster) :
              peer_cluster[i].key = peer_cluster[j].key => i = j
        /\ \A i \in 1..Len(peer_cluster) :
              /\ peer_cluster[i].tag = "Alvo Atual" <=> peer_cluster[i].key = sel_cidade
              /\ peer_cluster[i].tag \in {"Alvo Atual", PeerTag(app)}
        /\ Cardinality({i \in 1..Len(peer_cluster) : peer_cluster[i].tag = "Alvo Atual"}) <= 1
        /\ "Alvo Atual" # PeerTag(app)

\* A full peer result: the target and five peers, some of them at the
\* target's own distance 0.
C29_Witness ==
    /\ PeerDone
    /\ Len(peer_cluster) = TopK
    /\ \E i, j \in 1..Len(peer_cluster) :
          /\ peer_cluster[i].tag = "Alvo Atual"
          /\ peer_cluster[j].tag = PeerTag(app)
          /\ peer_cluster[j].dist_euclidiana = 0

Abs(x) == IF x < 0 THEN 0 - x ELSE x

\* C30: over a baseline of non-negative metric values that contains the
\* target, each per-metric normalized difference lies in [-1, 1] (the
\* difference is at most the scale in absolute value) and the squared
\* distance of every group is at most 2.
C30_DistanceBounded ==
    PeerDone =>
        \A i \in 1..Len(city_matrix_full) :
            /\ city_matrix_full[i].total >= 0
            /\ Value2(app, city_matrix_full[i], peer.unit) >= 0
            /\ Abs(city_matrix_full[i].total - peer.val_total) <= peer.max_total
            /\ Abs(Value2(app, city_matrix_full[i], peer.unit) - peer.val_2) <= peer.max_2
            /\ city_matrix_full[i].dist_euclidiana >= 0
            /\ city_matrix_full[i].dist_euclidiana <= 2 * DistDen

\* A group whose second metric differs from the target's by the whole scale
\* (normalized difference 1 or -1) and whose count differs too: a squared
\* distance above 1.
C30_Witness ==
    /\ PeerDone
    /\ \E i \in 1..Len(city_matrix_full) :
          /\ Abs(Value2(app, city_matrix_full[i], peer.unit) - peer.val_2) = peer.max_2
          /\ city_matrix_full[i].total # peer.val_total
          /\ city_matrix_full[i].dist_euclidiana > DistDen

====
